---- MODULE Spec2Model ----
(***************************************************************************)
(* Model of the mock REST API server: the consolidated server.js (with its *)
(* inline middleware), the earlier server.js that reads the collection     *)
(* through the router's database handle, and the middlewares.js module.    *)
(*                                                                         *)
(* A JavaScript string is a TLA+ string; where the code inspects its       *)
(* characters (toLowerCase, includes, localeCompare, new Date) the model   *)
(* works on its UTF-16 code units, CodeUnits(s).  A value that may be      *)
(* absent is a record [t, v] carrying its JavaScript type.                 *)
(***************************************************************************)
EXTENDS Integers, Sequences, FiniteSets, TLC

VARIABLES variant, db, loaded, loadFailed, req, res, mw

vars == <<variant, db, loaded, loadFailed, req, res, mw>>

(***************************************************************************)
(* Bounds of the model.                                                    *)
(***************************************************************************)
MaxProducts == 3

MaxPosts == 3

MaxRequests == 2

(***************************************************************************)
(* JavaScript values.                                                      *)
(***************************************************************************)
\* undefined, where a string and where an array is expected.
UndefinedString == [t |-> "undefined", v |-> ""]

UndefinedArray == [t |-> "undefined", v |-> <<>>]

JsString(s) == [t |-> "string", v |-> s]

JsArray(s) == [t |-> "array", v |-> s]

\* A value of a JSON document that is compared with ===: its type and its
\* printed form.
JsId(type, text) == [t |-> type, v |-> text]

\* A query parameter: absent, or a string.
NoParam == [given |-> FALSE, v |-> ""]

Param(s) == [given |-> TRUE, v |-> s]

\* JavaScript truthiness of a query parameter: undefined, null and the empty
\* string are falsy.
Truthy(p) == p.given /\ p.v # ""

(***************************************************************************)
(* String.prototype.toLowerCase, String.prototype.includes and             *)
(* String.prototype.localeCompare on strings of ASCII letters.             *)
(***************************************************************************)
\* The code units of the strings that occur in the model.
CodeUnits(name) ==
    CASE name = "Zeta" -> <<90, 101, 116, 97>>
      [] name = "Alpha" -> <<65, 108, 112, 104, 97>>
      [] name = "alpha" -> <<97, 108, 112, 104, 97>>
      [] name = "zet" -> <<122, 101, 116>>
      [] name = "WIDGET" -> <<87, 73, 68, 71, 69, 84>>
      [] name = "Widget" -> <<87, 105, 100, 103, 101, 116>>
      [] name = "Sale" -> <<83, 97, 108, 101>>
      [] name = "new" -> <<110, 101, 119>>
      [] name = "2023-01-01" -> <<50, 48, 50, 51, 45, 48, 49, 45, 48, 49>>
      [] name = "2023-06-01" -> <<50, 48, 50, 51, 45, 48, 54, 45, 48, 49>>
      [] name = "2023-06-01T00:00:00Z" ->
            <<50, 48, 50, 51, 45, 48, 54, 45, 48, 49, 84, 48, 48, 58, 48, 48, 58, 48, 48, 90>>
      [] name = "2022-12-31T23:59:59Z" ->
            <<50, 48, 50, 50, 45, 49, 50, 45, 51, 49, 84, 50, 51, 58, 53, 57, 58, 53, 57, 90>>
      [] OTHER -> <<>>

LowerUnit(c) == IF c \in 65..90 THEN c + 32 ELSE c

ToLowerCase(s) == [i \in DOMAIN s |-> LowerUnit(s[i])]

Includes(s, t) ==
    \E i \in 0..(Len(s) - Len(t)) : SubSeq(s, i + 1, i + Len(t)) = t

RECURSIVE PrimaryCompare(_, _)
\* First level of the collation: the letters, whatever their case.
PrimaryCompare(a, b) ==
    IF a = <<>> /\ b = <<>> THEN 0
    ELSE IF a = <<>> THEN -1
    ELSE IF b = <<>> THEN 1
    ELSE IF LowerUnit(Head(a)) < LowerUnit(Head(b)) THEN -1
    ELSE IF LowerUnit(Head(a)) > LowerUnit(Head(b)) THEN 1
    ELSE PrimaryCompare(Tail(a), Tail(b))

RECURSIVE CaseCompare(_, _)
\* Third level of the collation, for strings equal at the first level: at
\* the first position where the case differs, lower case sorts first.
CaseCompare(a, b) ==
    IF a = <<>> \/ b = <<>> THEN 0
    ELSE IF Head(a) = Head(b) THEN CaseCompare(Tail(a), Tail(b))
    ELSE IF Head(a) > Head(b) THEN -1
    ELSE 1

LocaleCompare(a, b) ==
    IF PrimaryCompare(a, b) # 0 THEN PrimaryCompare(a, b) ELSE CaseCompare(a, b)

(***************************************************************************)
(* new Date(createdAt) for the ISO-8601 forms YYYY-MM-DD and               *)
(* YYYY-MM-DDTHH:MM:SSZ, as the time value in seconds (the code's          *)
(* milliseconds divided by 1000, which TLC's integers can hold).           *)
(***************************************************************************)
Digits2(s, i) == (s[i] - 48) * 10 + (s[i + 1] - 48)

Digits4(s, i) == Digits2(s, i) * 100 + Digits2(s, i + 2)

DaysFromCivil(year, month, day) ==
    LET y == IF month <= 2 THEN year - 1 ELSE year
        era == y \div 400
        yoe == y - era * 400
        mp == IF month > 2 THEN month - 3 ELSE month + 9
        doy == (153 * mp + 2) \div 5 + day - 1
        doe == yoe * 365 + yoe \div 4 - yoe \div 100 + doy
    IN  era * 146097 + doe - 719468

DateParse(s) ==
    LET days == DaysFromCivil(Digits4(s, 1), Digits2(s, 6), Digits2(s, 9))
        secs == IF Len(s) > 10
                THEN Digits2(s, 12) * 3600 + Digits2(s, 15) * 60 + Digits2(s, 18)
                ELSE 0
    IN  days * 86400 + secs

(***************************************************************************)
(* The request handler of GET /api/products.                               *)
(***************************************************************************)
\* Compare with the two operands of price-high exchanged.
CompareSwapped(sortBy, a, b) ==
    CASE sortBy = "price-low" -> a.price - b.price
      [] sortBy = "price-high" -> a.price - b.price
      [] sortBy = "rating" -> b.rating - a.rating
      [] sortBy = "newest" -> DateParse(CodeUnits(b.createdAt)) - DateParse(CodeUnits(a.createdAt))
      [] OTHER -> LocaleCompare(CodeUnits(a.name), CodeUnits(b.name))

\* Compare written with a single test per key (x < y ? -1 : 1), which never
\* answers 0.
CompareNoTie(sortBy, a, b) ==
    CASE sortBy = "price-low" -> IF a.price < b.price THEN -1 ELSE 1
      [] sortBy = "price-high" -> IF b.price < a.price THEN -1 ELSE 1
      [] sortBy = "rating" -> IF b.rating < a.rating THEN -1 ELSE 1
      [] sortBy = "newest" ->
            IF DateParse(CodeUnits(b.createdAt)) < DateParse(CodeUnits(a.createdAt))
            THEN -1 ELSE 1
      [] OTHER -> IF LocaleCompare(CodeUnits(a.name), CodeUnits(b.name)) < 0 THEN -1 ELSE 1

\* The comparator handed to Array.prototype.sort.
Compare(sortBy, a, b) ==
    CASE sortBy = "price-low" -> a.price - b.price
      [] sortBy = "price-high" -> b.price - a.price
      [] sortBy = "rating" -> b.rating - a.rating
      [] sortBy = "newest" -> DateParse(CodeUnits(b.createdAt)) - DateParse(CodeUnits(a.createdAt))
      [] OTHER -> LocaleCompare(CodeUnits(a.name), CodeUnits(b.name))

RECURSIVE InsertSorted(_, _, _)
InsertSorted(sorted, x, sortBy) ==
    IF sorted = <<>> THEN <<x>>
    ELSE IF Compare(sortBy, sorted[Len(sorted)], x) > 0
         THEN Append(InsertSorted(SubSeq(sorted, 1, Len(sorted) - 1), x, sortBy),
                     sorted[Len(sorted)])
         ELSE Append(sorted, x)

RECURSIVE SortFrom(_, _, _)
SortFrom(sorted, rest, sortBy) ==
    IF rest = <<>> THEN sorted
    ELSE SortFrom(InsertSorted(sorted, Head(rest), sortBy), Tail(rest), sortBy)

\* Array.prototype.sort with the handler's comparator: a stable sort.
ArraySort(products, sortBy) == SortFrom(<<>>, products, sortBy)

CategoryFilter(products, categoryId) ==
    IF Truthy(categoryId) /\ categoryId.v # "all"
    THEN SelectSeq(products, LAMBDA product : product.categoryId = JsId("string", categoryId.v))
    ELSE products

AvailabilityFilter(products, filterBy) ==
    IF filterBy = "in-stock"
    THEN SelectSeq(products, LAMBDA product : product.inStock)
    ELSE IF filterBy = "on-sale"
    THEN SelectSeq(products, LAMBDA product : product.price < product.originalPrice)
    ELSE products

\* The search predicate on one product, evaluated left to right with
\* short-circuit ||: "match", "miss", or "throw" when a method is called on
\* undefined.  guardTags is the test  product.tags &&  of the consolidated
\* server.
SearchPredicate(product, searchLower, guardTags) ==
    IF Includes(ToLowerCase(CodeUnits(product.name)), searchLower) THEN "match"
    ELSE IF product.description.t = "undefined" THEN "throw"
    ELSE IF Includes(ToLowerCase(CodeUnits(product.description.v)), searchLower) THEN "match"
    ELSE IF product.tags.t = "undefined"
         THEN (IF guardTags THEN "miss" ELSE "throw")
    ELSE IF \E i \in DOMAIN product.tags.v :
                Includes(ToLowerCase(CodeUnits(product.tags.v[i])), searchLower)
         THEN "match"
    ELSE "miss"

SearchThrows(products, search, guardTags) ==
    /\ Truthy(search)
    /\ \E i \in DOMAIN products :
          SearchPredicate(products[i], ToLowerCase(CodeUnits(search.v)), guardTags) = "throw"

SearchFilter(products, search, guardTags) ==
    IF Truthy(search)
    THEN SelectSeq(products,
            LAMBDA product :
                SearchPredicate(product, ToLowerCase(CodeUnits(search.v)), guardTags) = "match")
    ELSE products

Ok(body) == [status |-> 200, error |-> "", body |-> body]

Failure(error) == [status |-> 500, error |-> error, body |-> <<>>]

SortParam(q) == IF Truthy(q.sort) THEN q.sort.v ELSE "name"

FilterParam(q) == IF Truthy(q.filter) THEN q.filter.v ELSE "all"

\* The consolidated server: the response, and db.products after the call.
ProductsHandler(d, q) ==
    IF d.products.t = "undefined"
    THEN [res |-> Failure("Database not loaded"), products |-> d.products]
    ELSE
      LET copy == d.products.v
          byCategory == CategoryFilter(copy, q.category)
          byAvailability == AvailabilityFilter(byCategory, FilterParam(q))
      IN  IF SearchThrows(byAvailability, q.search, TRUE)
          THEN [res |-> Failure("Internal server error"), products |-> d.products]
          ELSE [res |-> Ok(ArraySort(SearchFilter(byAvailability, q.search, TRUE),
                                     SortParam(q))),
                products |-> d.products]

\* Whether a filter has replaced the array that products refers to.
Refiltered(q) ==
    \/ Truthy(q.category) /\ q.category.v # "all"
    \/ FilterParam(q) \in {"in-stock", "on-sale"}
    \/ Truthy(q.search)

\* The earlier server: products is the array held by the router's database
\* until a filter replaces it, and sort works on whatever it refers to.  An
\* exception leaves the handler and the framework answers 500.
RouterProductsHandler(d, q) ==
    IF d.products.t = "undefined"
    THEN [res |-> Failure("Internal server error"), products |-> d.products]
    ELSE
      LET byCategory == CategoryFilter(d.products.v, q.category)
          byAvailability == AvailabilityFilter(byCategory, FilterParam(q))
      IN  IF SearchThrows(byAvailability, q.search, FALSE)
          THEN [res |-> Failure("Internal server error"), products |-> d.products]
          ELSE
            LET sorted == ArraySort(SearchFilter(byAvailability, q.search, FALSE),
                                    SortParam(q))
            IN  [res |-> Ok(sorted),
                 products |-> IF Refiltered(q) THEN d.products ELSE JsArray(sorted)]

(***************************************************************************)
(* The handler of GET /api/users/:id/posts.                                *)
(***************************************************************************)
\* PostsHandler comparing with == instead of ===.
PostsHandlerLoose(d, userId) ==
    IF d.posts.t = "undefined"
    THEN Failure("Database not loaded")
    ELSE Ok(SelectSeq(d.posts.v, LAMBDA post : post.userId.v = userId))

PostsHandler(d, userId) ==
    IF d.posts.t = "undefined"
    THEN Failure("Database not loaded")
    ELSE Ok(SelectSeq(d.posts.v, LAMBDA post : post.userId = JsId("string", userId)))

\* The earlier server: a lodash filter by the partial object {userId}; a
\* missing collection filters to the empty array.
RouterPostsHandler(d, userId) ==
    IF d.posts.t = "undefined"
    THEN Ok(<<>>)
    ELSE Ok(SelectSeq(d.posts.v, LAMBDA post : post.userId = JsId("string", userId)))

(***************************************************************************)
(* The collections the model draws db.json from.                           *)
(***************************************************************************)
Catalog ==
    { [id |-> 1, categoryId |-> JsId("string", "a"), name |-> "Zeta",
       description |-> JsString("Widget"), tags |-> JsArray(<<"new">>),
       price |-> 50, originalPrice |-> 50, inStock |-> TRUE, rating |-> 3,
       createdAt |-> "2023-01-01"],
      [id |-> 2, categoryId |-> JsId("string", "a"), name |-> "Alpha",
       description |-> UndefinedString, tags |-> UndefinedArray,
       price |-> 20, originalPrice |-> 40, inStock |-> FALSE, rating |-> 4,
       createdAt |-> "2023-06-01"],
      [id |-> 3, categoryId |-> JsId("string", "b"), name |-> "alpha",
       description |-> JsString("Sale"), tags |-> JsArray(<<"Widget">>),
       price |-> 20, originalPrice |-> 30, inStock |-> TRUE, rating |-> 4,
       createdAt |-> "2023-06-01T00:00:00Z"],
      [id |-> 4, categoryId |-> JsId("number", "1"), name |-> "Alpha",
       description |-> JsString(""), tags |-> UndefinedArray,
       price |-> 50, originalPrice |-> 40, inStock |-> TRUE, rating |-> 3,
       createdAt |-> "2022-12-31T23:59:59Z"] }

PostCatalog ==
    { [id |-> 1, userId |-> JsId("string", "1")],
      [id |-> 2, userId |-> JsId("string", "2")],
      [id |-> 3, userId |-> JsId("string", "1")],
      [id |-> 4, userId |-> JsId("number", "1")] }

\* The sequences of at most n records of S, no record twice.
Collections(S, n) ==
    UNION { { s \in [1..k -> S] : \A i, j \in 1..k : s[i] = s[j] => i = j } : k \in 0..n }

Categories == {NoParam, Param("all"), Param("a"), Param("1")}

Sorts == {NoParam, Param("price-low"), Param("price-high"), Param("rating"),
          Param("newest"), Param("name"), Param("popular")}

Filters == {NoParam, Param("all"), Param("in-stock"), Param("on-sale"), Param("cheap")}

Searches == {NoParam, Param("zet"), Param("WIDGET")}

Queries == [category : Categories, sort : Sorts, filter : Filters, search : Searches]

UserIds == {"1", "2", "3"}

NoQuery == [category |-> NoParam, sort |-> NoParam, filter |-> NoParam, search |-> NoParam]

NoRequest == [route |-> "none", query |-> NoQuery, id |-> ""]

NoResponse == [status |-> 0, error |-> "", body |-> <<>>]

NoMiddleware == [env |-> [NODE_ENV |-> "production", VERCEL |-> FALSE], requests |-> <<>>]

(***************************************************************************)
(* Start-up: db.json is read and parsed, or replaced by empty collections. *)
(***************************************************************************)
Fallback == [products |-> JsArray(<<>>), posts |-> JsArray(<<>>)]

LoadDb(file) == IF file.readable THEN file.json ELSE Fallback

\* db.json as the products route meets it: unreadable, lacking the
\* products key, or holding a collection.
ProductFiles ==
    { [readable |-> FALSE, json |-> Fallback],
      [readable |-> TRUE, json |-> [products |-> UndefinedArray, posts |-> JsArray(<<>>)]] }
    \cup { [readable |-> TRUE, json |-> [products |-> JsArray(c), posts |-> JsArray(<<>>)]] :
             c \in Collections(Catalog, MaxProducts) }

PostFiles ==
    { [readable |-> FALSE, json |-> Fallback],
      [readable |-> TRUE, json |-> [products |-> JsArray(<<>>), posts |-> UndefinedArray]] }
    \cup { [readable |-> TRUE, json |-> [products |-> JsArray(<<>>), posts |-> JsArray(c)]] :
             c \in Collections(PostCatalog, MaxPosts) }

\* The consolidated server loads db.json itself; the earlier server hands
\* the file name to the router, which needs a readable file.
Start(files) ==
    \E v \in {"consolidated", "router"}, file \in files :
        /\ v = "router" => file.readable
        /\ variant = v
        /\ db = (IF v = "consolidated" THEN LoadDb(file) ELSE file.json)
        /\ loaded = db
        /\ loadFailed = ~file.readable
        /\ req = NoRequest
        /\ res = NoResponse
        /\ mw = NoMiddleware

Init == Start(ProductFiles)

\* One request is handled at a time, from its arrival to the end of its
\* handler.
GetProducts(q) ==
    /\ variant = "consolidated"
    /\ req = NoRequest
    /\ \E out \in {ProductsHandler(db, q)} :
           /\ res' = out.res
           /\ db' = [db EXCEPT !.products = out.products]
    /\ req' = [route |-> "products", query |-> q, id |-> ""]
    /\ UNCHANGED <<variant, loaded, loadFailed, mw>>

RouterGetProducts(q) ==
    /\ variant = "router"
    /\ req = NoRequest
    /\ \E out \in {RouterProductsHandler(db, q)} :
           /\ res' = out.res
           /\ db' = [db EXCEPT !.products = out.products]
    /\ req' = [route |-> "products", query |-> q, id |-> ""]
    /\ UNCHANGED <<variant, loaded, loadFailed, mw>>

\* The response has gone out: the request and response objects are dropped.
Close ==
    /\ req # NoRequest
    /\ req' = NoRequest
    /\ res' = NoResponse
    /\ UNCHANGED <<variant, db, loaded, loadFailed, mw>>

Next ==
    \/ \E q \in Queries : GetProducts(q)
    \/ \E q \in Queries : RouterGetProducts(q)
    \/ Close

Spec == Init /\ [][Next]_vars

InitPosts == Start(PostFiles)

GetUserPosts(userId) ==
    /\ variant = "consolidated"
    /\ req = NoRequest
    /\ res' = PostsHandler(db, userId)
    /\ req' = [route |-> "posts", query |-> NoQuery, id |-> userId]
    /\ UNCHANGED <<variant, db, loaded, loadFailed, mw>>

RouterGetUserPosts(userId) ==
    /\ variant = "router"
    /\ req = NoRequest
    /\ res' = RouterPostsHandler(db, userId)
    /\ req' = [route |-> "posts", query |-> NoQuery, id |-> userId]
    /\ UNCHANGED <<variant, db, loaded, loadFailed, mw>>

NextPosts ==
    \/ \E userId \in UserIds : GetUserPosts(userId)
    \/ \E userId \in UserIds : RouterGetUserPosts(userId)
    \/ Close

SpecPosts == InitPosts /\ [][NextPosts]_vars

(***************************************************************************)
(* The custom middleware: the middlewares.js module that the earlier       *)
(* server mounts, and the inline middleware of the consolidated server.    *)
(* A request records what the middleware did with it: how often next was   *)
(* called, the timers still to fire, whether the response has gone out,    *)
(* and whether the middleware wrote to the response after calling next.    *)
(***************************************************************************)
Methods == {"GET", "POST", "OPTIONS"}

Envs == [NODE_ENV : {"production", "development"}, VERCEL : BOOLEAN]

NewRequest(method) ==
    [method |-> method, nextCalls |-> 0, timers |-> 0, headersSent |-> FALSE,
     responses |-> 0, answered |-> FALSE, wroteAfterNext |-> FALSE, threw |-> FALSE]

\* next(): the handlers further down run and the one that matches answers,
\* unless the response has already gone out (then its write throws and the
\* framework's error path finds nothing left to send).
CallNext(r) ==
    [r EXCEPT !.nextCalls = @ + 1,
              !.responses = IF r.headersSent THEN @ ELSE @ + 1,
              !.headersSent = TRUE]

\* cors(...)(req, res, () => {}): a preflight is answered by cors itself;
\* any other request only gets its headers.
CorsInline(r) ==
    IF r.method = "OPTIONS"
    THEN [r EXCEPT !.headersSent = TRUE, !.responses = @ + 1, !.answered = TRUE]
    ELSE r

\* res.setHeader twice: throws once the headers have gone out.
SetHeaders(r) ==
    [r EXCEPT !.threw = r.headersSent,
              !.wroteAfterNext = @ \/ r.nextCalls > 0]

\* res.sendStatus(200).
SendStatus(r) ==
    IF r.headersSent
    THEN [r EXCEPT !.threw = TRUE, !.wroteAfterNext = @ \/ r.nextCalls > 0]
    ELSE [r EXCEPT !.headersSent = TRUE, !.responses = @ + 1, !.answered = TRUE,
                   !.wroteAfterNext = @ \/ r.nextCalls > 0]

\* setTimeout(() => next(), delay) when not in production, else next().
DelayOrNext(r, production) ==
    IF production THEN CallNext(r) ELSE [r EXCEPT !.timers = @ + 1]

\* The body of the middlewares.js module, run to its return or its throw.
ModuleBody(env, method) ==
    LET delayed == DelayOrNext(CorsInline(NewRequest(method)), env.NODE_ENV = "production")
        headed == SetHeaders(delayed)
    IN  IF headed.threw THEN headed
        ELSE IF method = "OPTIONS" THEN SendStatus(headed)
        ELSE CallNext(headed)

\* The body of the inline middleware of the consolidated server.
InlineBody(env, method) ==
    DelayOrNext(SetHeaders(NewRequest(method)), env.NODE_ENV = "production" \/ env.VERCEL)

InitMw ==
    /\ variant \in {"consolidated", "router"}
    /\ db = Fallback
    /\ loaded = db
    /\ loadFailed = FALSE
    /\ req = NoRequest
    /\ res = NoResponse
    /\ mw \in [env : Envs, requests : {<<>>}]

ModuleMiddleware(method) ==
    /\ variant = "router"
    /\ Len(mw.requests) < MaxRequests
    /\ mw' = [mw EXCEPT !.requests = Append(@, ModuleBody(mw.env, method))]
    /\ UNCHANGED <<variant, db, loaded, loadFailed, req, res>>

InlineMiddleware(method) ==
    /\ variant = "consolidated"
    /\ Len(mw.requests) < MaxRequests
    /\ mw' = [mw EXCEPT !.requests = Append(@, InlineBody(mw.env, method))]
    /\ UNCHANGED <<variant, db, loaded, loadFailed, req, res>>

\* A timer set by the middleware fires and calls next.
TimerFires(i) ==
    /\ mw.requests[i].timers > 0
    /\ mw' = [mw EXCEPT !.requests[i] = CallNext([@ EXCEPT !.timers = @ - 1])]
    /\ UNCHANGED <<variant, db, loaded, loadFailed, req, res>>

NextMw ==
    \/ \E method \in Methods : ModuleMiddleware(method)
    \/ \E method \in Methods : InlineMiddleware(method)
    \/ \E i \in DOMAIN mw.requests : TimerFires(i)

SpecMw == InitMw /\ [][NextMw]_vars

(***************************************************************************)
(* What the properties below speak of.                                     *)
(***************************************************************************)
Range(s) == {s[i] : i \in DOMAIN s}

ProductsAnswered == req.route = "products" /\ db.products.t = "array"

\* The handler of the server that is running.
Respond(d, q) ==
    IF variant = "consolidated" THEN ProductsHandler(d, q) ELSE RouterProductsHandler(d, q)

\* The sequence the handler has after its three filters, before it sorts.
PostFilter(d, q) ==
    SearchFilter(AvailabilityFilter(CategoryFilter(d.products.v, q.category), FilterParam(q)),
                 q.search, variant = "consolidated")

\* The search filter as specified: an absent description counts as the
\* empty string and absent tags as no tags.
SearchMatches(product, search) ==
    LET searchLower == ToLowerCase(CodeUnits(search))
        description == IF product.description.t = "undefined" THEN ""
                       ELSE product.description.v
        tags == IF product.tags.t = "undefined" THEN <<>> ELSE product.tags.v
    IN  \/ Includes(ToLowerCase(CodeUnits(product.name)), searchLower)
        \/ Includes(ToLowerCase(CodeUnits(description)), searchLower)
        \/ \E i \in DOMAIN tags : Includes(ToLowerCase(CodeUnits(tags[i])), searchLower)

InCategory(product, q) ==
    (q.category.given /\ q.category.v \notin {"", "all"})
        => product.categoryId = JsId("string", q.category.v)

Available(product, q) ==
    /\ q.filter = Param("in-stock") => product.inStock
    /\ q.filter = Param("on-sale") => product.price < product.originalPrice

Satisfies(product, q) ==
    /\ InCategory(product, q)
    /\ Available(product, q)
    /\ (q.search.given /\ q.search.v # "") => SearchMatches(product, q.search.v)

SortKeys == {"price-low", "price-high", "rating", "newest", "name"}

SameKey(sortBy, a, b) ==
    CASE sortBy \in {"price-low", "price-high"} -> a.price = b.price
      [] sortBy = "rating" -> a.rating = b.rating
      [] sortBy = "newest" ->
            DateParse(CodeUnits(a.createdAt)) = DateParse(CodeUnits(b.createdAt))
      [] OTHER -> LocaleCompare(CodeUnits(a.name), CodeUnits(b.name)) = 0

Permutation(a, b) ==
    /\ Len(a) = Len(b)
    /\ \A x \in Range(a) \cup Range(b) :
          Cardinality({i \in DOMAIN a : a[i] = x}) = Cardinality({i \in DOMAIN b : b[i] = x})

Position(s, x) == CHOOSE i \in DOMAIN s : s[i] = x

\* C1: GET /api/products never changes the stored product sequence: after
\* any sequence of product queries it has the elements, in the order, it
\* was loaded with.
C1_StoreNeverMutated == db.products = loaded.products

\* C2: requests do not interfere: every response to GET /api/products is
\* the one the handler gives on the collection as it was loaded, whatever
\* was served before.
C2_NoInterference ==
    req.route = "products" => res = Respond(loaded, req.query).res

\* C3: with search set and a record lacking description or tags in the
\* collection, the request still answers 200 with the records that match
\* when the absent field counts as empty.
C3_AbsentFieldsTolerated ==
    ( /\ ProductsAnswered
      /\ Truthy(req.query.search)
      /\ \E p \in Range(db.products.v) :
            p.description.t = "undefined" \/ p.tags.t = "undefined" )
    => /\ res.status = 200
       /\ Range(res.body) = {p \in Range(db.products.v) : Satisfies(p, req.query)}

\* C4: when db.json could not be loaded at start-up, every GET
\* /api/products is answered with a server error, never with a 200 list.
C4_LoadFailureAnswered ==
    (loadFailed /\ req.route = "products") => res.status = 500

\* C5: the result of GET /api/products holds exactly the loaded products
\* that satisfy every active filter, and with category and availability
\* both set it is the intersection of the results of each filter alone.
C5_ExactlyTheMatches ==
    ProductsAnswered =>
        /\ res.status = 200
        /\ Range(res.body) = {p \in Range(loaded.products.v) : Satisfies(p, req.query)}
        /\ Range(res.body) =
              Range(Respond(db, [req.query EXCEPT !.filter = NoParam]).res.body)
              \cap Range(Respond(db, [req.query EXCEPT !.category = NoParam]).res.body)

\* C6: the list answered by GET /api/products is ordered by the requested
\* sort key (price up for price-low, price down for price-high, rating
\* down for rating, createdAt down for newest, name up for name) and is a
\* permutation of the sequence left by the filters.
C6_SortedByKey ==
    (ProductsAnswered /\ res.status = 200) =>
        /\ \A i \in 1..(Len(res.body) - 1) :
              LET a == res.body[i]
                  b == res.body[i + 1]
                  sort == req.query.sort
              IN  /\ sort = Param("price-low") => a.price <= b.price
                  /\ sort = Param("price-high") => a.price >= b.price
                  /\ sort = Param("rating") => a.rating >= b.rating
                  /\ sort = Param("newest") =>
                        DateParse(CodeUnits(a.createdAt)) >= DateParse(CodeUnits(b.createdAt))
                  /\ sort = Param("name") =>
                        LocaleCompare(CodeUnits(a.name), CodeUnits(b.name)) <= 0
        /\ Permutation(res.body, PostFilter(db, req.query))

\* A 200 answer to sort=price-high&filter=in-stock with three products
\* that the sort had to reorder.
C6_Witness ==
    /\ ProductsAnswered
    /\ res.status = 200
    /\ req.query.sort = Param("price-high")
    /\ req.query.filter = Param("in-stock")
    /\ Len(res.body) = 3
    /\ res.body[1].price > res.body[3].price
    /\ res.body # PostFilter(db, req.query)

\* C7: the sort of GET /api/products is stable: two products of the answer
\* with equal sort keys stand in the order they had in the sequence left
\* by the filters, taken from the collection as it was when the request
\* arrived.
C7_SortStable ==
    [][ (req'.route = "products" /\ db.products.t = "array" /\ res'.status = 200) =>
            LET before == PostFilter(db, req'.query)
                after == res'.body
            IN  \A i, j \in DOMAIN after :
                    (i < j /\ SameKey(SortParam(req'.query), after[i], after[j])) =>
                        /\ after[i] \in Range(before)
                        /\ after[j] \in Range(before)
                        /\ Position(before, after[i]) < Position(before, after[j]) ]_vars

\* A 200 answer to sort=rating with two products of equal rating, the one
\* with the higher id first, ahead of a product of lower rating.
C7_Witness ==
    /\ ProductsAnswered
    /\ res.status = 200
    /\ req.query.sort = Param("rating")
    /\ Len(res.body) = 3
    /\ res.body[1].rating = res.body[2].rating
    /\ res.body[1].id > res.body[2].id
    /\ res.body[3].rating < res.body[2].rating

\* C8: a sort value outside the five sort keys (or none) answers as
\* sort=name does, a filter value other than in-stock and on-sale (or none)
\* answers as filter=all does, and the answer is a 200 list, not an error.
C8_EnumFallback ==
    ProductsAnswered =>
        /\ (~req.query.sort.given \/ req.query.sort.v \notin SortKeys) =>
              /\ res = Respond(db, [req.query EXCEPT !.sort = Param("name")]).res
              /\ res.status = 200
        /\ (~req.query.filter.given \/ req.query.filter.v \notin {"in-stock", "on-sale"}) =>
              /\ res = Respond(db, [req.query EXCEPT !.filter = Param("all")]).res
              /\ res.status = 200

\* C9: GET /api/users/:id/posts answers exactly the posts whose userId is
\* the identifier of the path, in the order of the posts collection, and
\* leaves the collection as it was loaded.
C9_PostsOfUser ==
    (req.route = "posts" /\ db.posts.t = "array") =>
        /\ res.status = 200
        /\ \A i \in DOMAIN res.body : res.body[i].userId = JsId("string", req.id)
        /\ \A post \in Range(loaded.posts.v) :
              post.userId = JsId("string", req.id) => post \in Range(res.body)
        /\ \A i, j \in DOMAIN res.body :
              i < j => /\ res.body[i] \in Range(loaded.posts.v)
                       /\ res.body[j] \in Range(loaded.posts.v)
                       /\ Position(loaded.posts.v, res.body[i])
                             < Position(loaded.posts.v, res.body[j])
        /\ db = loaded

\* Two posts answered out of three stored, the one between them having the
\* number, not the string, of the path identifier as its userId.
C9_Witness ==
    /\ req.route = "posts"
    /\ db.posts.t = "array"
    /\ Len(db.posts.v) = 3
    /\ Len(res.body) = 2
    /\ db.posts.v[2] \notin Range(res.body)
    /\ db.posts.v[2].userId.v = req.id

\* C10: for every request the middleware calls next at most once (exactly
\* once, counting a timer still to fire, when it does not answer the
\* request itself), writes nothing to the response after calling next, and
\* the request gets one response at most.
C10_NextOnce ==
    \A i \in DOMAIN mw.requests :
        LET r == mw.requests[i]
        IN  /\ r.nextCalls + r.timers <= 1
            /\ ~r.answered => r.nextCalls + r.timers = 1
            /\ ~r.wroteAfterNext
            /\ r.responses <= 1

====
